---- MODULE Spec2Model ----
(***************************************************************************)
(* Pill-reminder-pi, src/classes.js: the Medication and Person entities    *)
(* and the UserManager that keeps a local list of people in step with a    *)
(* remote store over fetch (POST /users, GET /users, DELETE /users).       *)
(*                                                                         *)
(* JavaScript objects live on two heaps (persons, meds) and are referred   *)
(* to by identity.  An async method runs to its first await in the step    *)
(* that calls it; each later step is the settling of one awaited promise   *)
(* (fetch, then res.json()).  Requests in flight are the bag inflight.     *)
(***************************************************************************)
EXTENDS Integers, Sequences, FiniteSets, Bags, TLC

VARIABLES
    persons,    \* heap of Person objects: id -> [name, medications (ids)]
    meds,       \* heap of Medication objects: id -> [name, frequencyPerDay, taken, refillDate]
    people,     \* UserManager.people: sequence of Person ids
    remote,     \* the remote store behind apiBaseUrl/users: sequence of JSON records
    inflight,   \* bag of asynchronous calls suspended at an await
    last,       \* the handler that ran in the last step, what it was given and what it emitted
    attached,   \* addMedication calls of the caller that appended (bounds the caller)
    calls       \* calls of UserManager methods made so far (bounds the caller)

vars == <<persons, meds, people, remote, inflight, last, attached, calls>>

(***************************************************************************)
(* Bounds of the exploration.                                              *)
(***************************************************************************)
MaxPersons == 2
MaxMedications == 2
MaxAttach == 2
MaxCalls == 3
MaxLoads == 1
MaxInFlight == 2
MaxRemote == 2

(***************************************************************************)
(* Program constants.                                                      *)
(***************************************************************************)
MedicationCap == 5
PeopleCap == 5
MsPerDay == 86400000

Range(s) == {s[i] : i \in DOMAIN s}

(***************************************************************************)
(* Values.  A Date is its time value, or invalid (time value NaN).  A      *)
(* string holding a date is the pair <<day, millisecond of the day>> that  *)
(* the ISO-8601 text YYYY-MM-DDTHH:mm:ss.sssZ spells; any other string is  *)
(* the empty sequence.                                                     *)
(***************************************************************************)
InvalidDate == [valid |-> FALSE, time |-> 0]
DateOf(t) == [valid |-> TRUE, time |-> t]

NotADateString == <<>>

\* new Date(string): the time value the text denotes, NaN when it denotes none
NewDate(s) ==
    IF Len(s) = 2 /\ s[2] < MsPerDay
    THEN DateOf(s[1] * MsPerDay + s[2])
    ELSE InvalidDate

\* Date.prototype.toISOString of a valid date (it throws RangeError otherwise)
toISOString(d) == <<d.time \div MsPerDay, d.time % MsPerDay>>

\* constructor(name, frequencyPerDay, taken = false, refillDate = new Date());
\* refillDate is given as [isDate, date, text]: a Date instance or a string
Medication(name, frequencyPerDay, taken, refillDate) ==
    [name |-> name,
     frequencyPerDay |-> frequencyPerDay,
     taken |-> taken,
     refillDate |-> IF refillDate.isDate THEN refillDate.date
                    ELSE NewDate(refillDate.text)]

ADate(d) == [isDate |-> TRUE, date |-> d, text |-> NotADateString]
AString(s) == [isDate |-> FALSE, date |-> InvalidDate, text |-> s]

\* markAsTaken that flips the flag
markAsTakenToggle(m) == [m EXCEPT !.taken = ~@]

markAsTaken(m) == [m EXCEPT !.taken = TRUE]

resetTakenStatus(m) == [m EXCEPT !.taken = FALSE]

Person(name) == [name |-> name, medications |-> <<>>]

Warn(msg, name) == [level |-> "warn", msg |-> msg, name |-> name]
Log(msg, name) == [level |-> "log", msg |-> msg, name |-> name]
Error(msg, name) == [level |-> "error", msg |-> msg, name |-> name]

\* addMedication with the capacity test off by one (> for >=)
addMedicationOffByOne(person, med) ==
    IF Len(person.medications) > MedicationCap
    THEN [person |-> person,
          console |-> <<Warn("already has 5 medications", person.name)>>]
    ELSE [person |-> [person EXCEPT !.medications = Append(@, med)],
          console |-> <<>>]

\* addMedication without the return after the warning
addMedicationNoReturn(person, med) ==
    [person |-> [person EXCEPT !.medications = Append(@, med)],
     console |-> IF Len(person.medications) >= MedicationCap
                 THEN <<Warn("already has 5 medications", person.name)>>
                 ELSE <<>>]

\* Person.addMedication(med): the person after the call and what it printed
addMedication(person, med) ==
    IF Len(person.medications) >= MedicationCap
    THEN [person |-> person,
          console |-> <<Warn("already has 5 medications", person.name)>>]
    ELSE [person |-> [person EXCEPT !.medications = Append(@, med)],
          console |-> <<>>]

(***************************************************************************)
(* JSON.  A person record of the store is [name, medications]; a           *)
(* medication record is [name, frequencyPerDay, taken, refillDate].  A     *)
(* response body is [kind, items, userId]: text that is no JSON, the JSON  *)
(* null, a JSON object (of POST, with userId or 0 for none) or an array.   *)
(***************************************************************************)
JsonNull == [type |-> "null"]
IsNull(v) == "type" \in DOMAIN v

Unparseable == [kind |-> "unparseable", items |-> <<>>, userId |-> 0]
NullBody == [kind |-> "null", items |-> <<>>, userId |-> 0]
ObjectBody(userId) == [kind |-> "object", items |-> <<>>, userId |-> userId]
ArrayBody(items) == [kind |-> "array", items |-> items, userId |-> 0]
NoBody == [kind |-> "none", items |-> <<>>, userId |-> 0]

\* the object literal of one medication in the POST body
MedicationJson(m) ==
    [name |-> m.name,
     frequencyPerDay |-> m.frequencyPerDay,
     taken |-> m.taken,
     refillDate |-> toISOString(m.refillDate)]

\* m.refillDate.toISOString() throws RangeError on an invalid date
SerializeThrows(person, heap) ==
    \E i \in DOMAIN person.medications :
        ~heap[person.medications[i]].refillDate.valid

\* the body of the POST request: JSON.stringify({name, medications: [...]})
PersonJson(person, heap) ==
    [name |-> person.name,
     medications |-> [i \in DOMAIN person.medications |->
                         MedicationJson(heap[person.medications[i]])]]

NoPayload == [name |-> "", medications |-> <<>>]

(***************************************************************************)
(* Object identity.  The caller's own objects take the ids 1..MaxPersons   *)
(* and 1..MaxMedications; objects built by loadAllPeople take the least    *)
(* free id above them.  An object nothing refers to any more is dropped.   *)
(***************************************************************************)
FreshId(used, above) ==
    CHOOSE i \in (above + 1)..(above + Cardinality(used) + 1) :
        /\ i \notin used
        /\ \A j \in (above + 1)..(i - 1) : j \in used

CallerPersons == {i \in DOMAIN persons : i <= MaxPersons}
CallerMedications == {i \in DOMAIN meds : i <= MaxMedications}

Restrict(f, S) == [x \in S |-> f[x]]

LivePersons(ps, ppl, pending) ==
    ({i \in DOMAIN ps : i <= MaxPersons}
        \cup Range(ppl)
        \cup {c.person : c \in BagToSet(pending)}) \ {0}

LiveMedications(ps, ms, alive) ==
    {i \in DOMAIN ms : i <= MaxMedications}
        \cup UNION {Range(ps[p].medications) : p \in alive}

(***************************************************************************)
(* loadAllPeople, lines 98-106: data.map(p => ...).  The result is         *)
(* [threw, people, persons, meds, console]; threw is a TypeError raised by *)
(* data.map, p.name, p.medications.forEach or m.name.                      *)
(***************************************************************************)
RECURSIVE ForEachMedication(_, _, _)
ForEachMedication(records, j, acc) ==
    IF j > Len(records) \/ acc.threw THEN acc
    ELSE LET m == records[j] IN
         IF IsNull(m) THEN [acc EXCEPT !.threw = TRUE]
         ELSE LET id == FreshId(DOMAIN acc.meds, MaxMedications)
                  med == Medication(m.name, m.frequencyPerDay, m.taken,
                                    ADate(NewDate(m.refillDate)))
                  r == addMedication(acc.person, id)
              IN  ForEachMedication(records, j + 1,
                    [threw |-> FALSE,
                     person |-> r.person,
                     meds |-> IF r.person = acc.person THEN acc.meds
                              ELSE acc.meds @@ (id :> med),
                     console |-> acc.console \o r.console])

RECURSIVE MapRecords(_, _, _)
MapRecords(data, i, acc) ==
    IF i > Len(data) \/ acc.threw THEN acc
    ELSE LET p == data[i] IN
         IF IsNull(p) \/ "medications" \notin DOMAIN p
         THEN [acc EXCEPT !.threw = TRUE]
         ELSE LET id == FreshId(DOMAIN acc.persons, MaxPersons)
                  r == ForEachMedication(p.medications, 1,
                         [threw |-> FALSE, person |-> Person(p.name),
                          meds |-> acc.meds, console |-> acc.console])
              IN  MapRecords(data, i + 1,
                    [threw |-> r.threw,
                     people |-> Append(acc.people, id),
                     persons |-> acc.persons @@ (id :> r.person),
                     meds |-> r.meds,
                     console |-> r.console])

Reconstruct(body, ps, ms) ==
    IF body.kind # "array"
    THEN [threw |-> TRUE, people |-> <<>>, persons |-> ps, meds |-> ms,
          console |-> <<>>]
    ELSE MapRecords(body.items, 1,
           [threw |-> FALSE, people |-> <<>>, persons |-> ps, meds |-> ms,
            console |-> <<>>])

(***************************************************************************)
(* The catch blocks, lines 87-89, 109-111 and 119-121: the error is        *)
(* printed and the async method's promise is fulfilled.                    *)
(***************************************************************************)
savePersonToServerCatch ==
    [settled |-> "fulfilled", console |-> <<Error("Failed to save user", "")>>]

\* a catch block that rethrows
loadAllPeopleRethrow ==
    [settled |-> "rejected", console |-> <<Error("Failed to load users", "")>>]

loadAllPeopleCatch ==
    [settled |-> "fulfilled", console |-> <<Error("Failed to load users", "")>>]

clearAllDataOnServerCatch ==
    [settled |-> "fulfilled", console |-> <<Error("Failed to clear data", "")>>]

(***************************************************************************)
(* What the caller and the remote server may supply.                       *)
(***************************************************************************)
RecordNames == <<"Sam", "Alex", "Ana", "Ben", "Cleo", "Dan", "Eve">>
DrugNames == <<"Aspirin", "Vitamin D", "Metformin", "Lisinopril",
               "Omeprazole", "Atorvastatin", "Ibuprofen", "Zinc">>

MedicationRecord(j) ==
    [name |-> DrugNames[j], frequencyPerDay |-> 1 + (j % 2),
     taken |-> (j % 2 = 0),
     refillDate |-> IF j = 2 THEN NotADateString ELSE <<j, j>>]

PersonRecord(i, k) ==
    [name |-> RecordNames[i],
     medications |-> [j \in 1..k |-> MedicationRecord(j)]]

\* bodies a server may answer GET /users with, besides its store's content
ForeignBodies ==
    { Unparseable,
      NullBody,
      ArrayBody([i \in 1..(PeopleCap + 1) |-> PersonRecord(i, 0)]),
      ArrayBody(<<PersonRecord(1, MedicationCap + 2)>>),
      ArrayBody(<<PersonRecord(1, MedicationCap + 1), PersonRecord(2, 1)>>),
      ArrayBody(<<PersonRecord(1, 1), JsonNull>>),
      ArrayBody(<<PersonRecord(1, 1), [name |-> "Ana"]>>),
      ArrayBody(<<[name |-> "Ben",
                   medications |-> <<MedicationRecord(1), JsonNull>>]>>) }

\* bodies a server may answer POST /users with
PostBodies == {Unparseable, NullBody, ObjectBody(7), ObjectBody(0)}

Call(op, phase, person, body, resp) ==
    [op |-> op, phase |-> phase, person |-> person, body |-> body, resp |-> resp]

\* last: the handler, the objects it was called with, how the awaited
\* promise settled, how the method's own promise stands, and what it printed
Step(op, person, med, outcome, settled, console) ==
    [op |-> op, person |-> person, med |-> med, outcome |-> outcome,
     data |-> NoBody, settled |-> settled, console |-> console]

(***************************************************************************)
(* The methods of UserManager, cut at their awaits.                        *)
(***************************************************************************)
\* addPerson that leaves the append to the push's success
addPersonPushFirst(ppl, p) ==
    IF Len(ppl) >= PeopleCap
    THEN [people |-> ppl, push |-> FALSE,
          console |-> <<Warn("Cannot add more than 5 people", "")>>]
    ELSE [people |-> ppl, push |-> TRUE, console |-> <<>>]

\* addPerson that puts the person in front (unshift for push)
addPersonUnshift(ppl, p) ==
    IF Len(ppl) >= PeopleCap
    THEN [people |-> ppl, push |-> FALSE,
          console |-> <<Warn("Cannot add more than 5 people", "")>>]
    ELSE [people |-> <<p>> \o ppl, push |-> TRUE, console |-> <<>>]

\* addPerson, lines 56-61: the capacity check and the local append
addPerson(ppl, p) ==
    IF Len(ppl) >= PeopleCap
    THEN [people |-> ppl, push |-> FALSE,
          console |-> <<Warn("Cannot add more than 5 people", "")>>]
    ELSE [people |-> Append(ppl, p), push |-> TRUE, console |-> <<>>]

\* savePersonToServer, lines 66-79: the request is built, then fetch is called
savePersonToServer(person, heap) ==
    IF SerializeThrows(person, heap)
    THEN [sent |-> FALSE, body |-> NoPayload,
          settled |-> savePersonToServerCatch.settled,
          console |-> savePersonToServerCatch.console]
    ELSE [sent |-> TRUE, body |-> PersonJson(person, heap),
          settled |-> "pending", console |-> <<>>]

\* savePersonToServer, lines 81-83, with the fetch settled as outcome
savePersonToServerFetched(outcome) ==
    IF outcome = "ok"
    THEN [settled |-> "pending", console |-> <<>>]
    ELSE savePersonToServerCatch

\* savePersonToServer, lines 85-86, with res.json() settled on resp
savePersonToServerParsed(resp, name) ==
    IF resp.kind = "object"
    THEN [settled |-> "fulfilled", console |-> <<Log("Saved", name)>>]
    ELSE savePersonToServerCatch

\* loadAllPeople, line 95, with the fetch settled as outcome
loadAllPeopleFetched(outcome) ==
    IF outcome = "ok"
    THEN [settled |-> "pending", console |-> <<>>]
    ELSE loadAllPeopleCatch

\* loadAllPeople that fills this.people record by record
loadAllPeopleParsedInPlace(resp, ppl, ps, ms) ==
    LET r == Reconstruct(resp, ps, ms) IN
    IF r.threw
    THEN [ok |-> FALSE, people |-> r.people, persons |-> r.persons,
          meds |-> r.meds, settled |-> loadAllPeopleCatch.settled,
          console |-> r.console \o loadAllPeopleCatch.console]
    ELSE [ok |-> TRUE, people |-> r.people, persons |-> r.persons,
          meds |-> r.meds, settled |-> "fulfilled",
          console |-> r.console \o <<Log("Users loaded from API", "")>>]

\* loadAllPeople that appends what it loaded to this.people
loadAllPeopleParsedMerging(resp, ppl, ps, ms) ==
    LET r == Reconstruct(resp, ps, ms) IN
    IF r.threw
    THEN [ok |-> FALSE, people |-> ppl, persons |-> ps, meds |-> ms,
          settled |-> loadAllPeopleCatch.settled,
          console |-> r.console \o loadAllPeopleCatch.console]
    ELSE [ok |-> TRUE, people |-> ppl \o r.people, persons |-> r.persons,
          meds |-> r.meds, settled |-> "fulfilled",
          console |-> r.console \o <<Log("Users loaded from API", "")>>]

\* loadAllPeople that keeps the local persons behind the loaded ones
loadAllPeopleParsedKeepingLocal(resp, ppl, ps, ms) ==
    LET r == Reconstruct(resp, ps, ms) IN
    IF r.threw
    THEN [ok |-> FALSE, people |-> ppl, persons |-> ps, meds |-> ms,
          settled |-> loadAllPeopleCatch.settled,
          console |-> r.console \o loadAllPeopleCatch.console]
    ELSE [ok |-> TRUE, people |-> r.people \o ppl, persons |-> r.persons,
          meds |-> r.meds, settled |-> "fulfilled",
          console |-> r.console \o <<Log("Users loaded from API", "")>>]

\* loadAllPeople, lines 97-108, with res.json() settled on resp
loadAllPeopleParsed(resp, ppl, ps, ms) ==
    LET r == Reconstruct(resp, ps, ms) IN
    IF r.threw
    THEN [ok |-> FALSE, people |-> ppl, persons |-> ps, meds |-> ms,
          settled |-> loadAllPeopleCatch.settled,
          console |-> r.console \o loadAllPeopleCatch.console]
    ELSE [ok |-> TRUE, people |-> r.people, persons |-> r.persons,
          meds |-> r.meds, settled |-> "fulfilled",
          console |-> r.console \o <<Log("Users loaded from API", "")>>]

\* clearAllDataOnServer that clears only on res.ok
clearAllDataOnServerFetchedIfOk(outcome, ppl) ==
    IF outcome = "transport"
    THEN [people |-> ppl,
          settled |-> clearAllDataOnServerCatch.settled,
          console |-> clearAllDataOnServerCatch.console]
    ELSE [people |-> IF outcome = "ok" THEN <<>> ELSE ppl,
          settled |-> "fulfilled",
          console |-> <<Log("All user data cleared on server", "")>>]

\* clearAllDataOnServer that clears before the request
clearAllDataOnServerFetchedEagerly(outcome, ppl) ==
    IF outcome = "transport"
    THEN [people |-> <<>>,
          settled |-> clearAllDataOnServerCatch.settled,
          console |-> clearAllDataOnServerCatch.console]
    ELSE [people |-> <<>>, settled |-> "fulfilled",
          console |-> <<Log("All user data cleared on server", "")>>]

\* clearAllDataOnServer, lines 116-118, with the fetch settled as outcome
clearAllDataOnServerFetched(outcome, ppl) ==
    IF outcome = "transport"
    THEN [people |-> ppl,
          settled |-> clearAllDataOnServerCatch.settled,
          console |-> clearAllDataOnServerCatch.console]
    ELSE [people |-> <<>>, settled |-> "fulfilled",
          console |-> <<Log("All user data cleared on server", "")>>]

(***************************************************************************)
(* The heaps after a step, without the objects nothing refers to any more. *)
(***************************************************************************)
SetHeap(ps, ms, ppl, pending) ==
    LET alive == LivePersons(ps, ppl, pending) IN
    /\ persons' = Restrict(ps, alive)
    /\ meds' = Restrict(ms, LiveMedications(ps, ms, alive))

\* the objects the caller lays hands on: its own, and the first loaded one
Reachable(heap, own) == {i \in DOMAIN heap : i <= own + 1}

(***************************************************************************)
(* The caller's steps on the entities.                                     *)
(***************************************************************************)
AddMedication ==
    \E p \in Reachable(persons, MaxPersons), m \in Reachable(meds, MaxMedications) :
      LET r == addMedication(persons[p], m) IN
      /\ r.person # persons[p] => attached < MaxAttach
      /\ attached' = IF r.person # persons[p] THEN attached + 1 ELSE attached
      /\ persons' = [persons EXCEPT ![p] = r.person]
      /\ last' = Step("addMedication", p, m, "", "none", r.console)
      /\ UNCHANGED <<meds, people, remote, inflight, calls>>

MarkAsTaken ==
    \E m \in Reachable(meds, MaxMedications) :
      /\ meds' = [meds EXCEPT ![m] = markAsTaken(@)]
      /\ last' = Step("markAsTaken", 0, m, "", "none", <<>>)
      /\ UNCHANGED <<persons, people, remote, inflight, attached, calls>>

ResetTakenStatus ==
    \E m \in Reachable(meds, MaxMedications) :
      /\ meds' = [meds EXCEPT ![m] = resetTakenStatus(@)]
      /\ last' = Step("resetTakenStatus", 0, m, "", "none", <<>>)
      /\ UNCHANGED <<persons, people, remote, inflight, attached, calls>>

(***************************************************************************)
(* The caller's calls of the UserManager: each runs to its first await.    *)
(***************************************************************************)
One(c) == SetToBag({c})

AddPerson ==
    \E p \in Reachable(persons, MaxPersons) :
      LET a == addPerson(people, p)
          s == savePersonToServer(persons[p], meds)
      IN
      /\ calls < MaxCalls
      /\ calls' = calls + 1
      /\ people' = a.people
      /\ IF ~a.push
         THEN /\ inflight' = inflight
              /\ last' = Step("addPerson", p, 0, "full", "fulfilled", a.console)
         ELSE IF ~s.sent
         THEN /\ inflight' = inflight
              /\ last' = Step("addPerson", p, 0, "threw", s.settled, s.console)
         ELSE /\ BagCardinality(inflight) < MaxInFlight
              /\ inflight' = inflight (+) One(Call("POST", "fetch", p, s.body, NoBody))
              /\ last' = Step("addPerson", p, 0, "sent", "pending", <<>>)
      /\ UNCHANGED <<persons, meds, remote, attached>>

LoadAllPeople ==
    /\ calls < MaxCalls
    /\ calls' = calls + 1
    /\ BagCardinality(inflight) < MaxInFlight
    /\ inflight' = inflight (+) One(Call("GET", "fetch", 0, NoPayload, NoBody))
    /\ last' = Step("loadAllPeople", 0, 0, "sent", "pending", <<>>)
    /\ UNCHANGED <<persons, meds, people, remote, attached>>

ClearAllDataOnServer ==
    /\ calls < MaxCalls
    /\ calls' = calls + 1
    /\ BagCardinality(inflight) < MaxInFlight
    /\ inflight' = inflight (+) One(Call("DELETE", "fetch", 0, NoPayload, NoBody))
    /\ last' = Step("clearAllDataOnServer", 0, 0, "sent", "pending", <<>>)
    /\ UNCHANGED <<persons, meds, people, remote, attached>>

(***************************************************************************)
(* The network: an awaited fetch settles.  "transport" is the rejection of *)
(* fetch, "status" a response with res.ok false, "ok" one with res.ok      *)
(* true.  The server acts on its store when it answers ok; its answer to   *)
(* GET carries the store's content as of then.                             *)
(***************************************************************************)
Outcomes == {"transport", "status", "ok"}

PostFetched ==
    \E c \in BagToSet(inflight), outcome \in Outcomes :
      LET h == savePersonToServerFetched(outcome) IN
      /\ c.op = "POST" /\ c.phase = "fetch"
      /\ IF h.settled = "pending"
         THEN /\ Len(remote) < MaxRemote
              /\ remote' = Append(remote, c.body)
              /\ inflight' = (inflight (-) One(c)) (+)
                             One([c EXCEPT !.phase = "json"])
         ELSE /\ remote' = remote
              /\ inflight' = inflight (-) One(c)
      /\ SetHeap(persons, meds, people, inflight')
      /\ last' = Step("POST fetch", c.person, 0, outcome, h.settled, h.console)
      /\ UNCHANGED <<people, attached, calls>>

GetFetched ==
    \E c \in BagToSet(inflight), outcome \in Outcomes :
      LET h == loadAllPeopleFetched(outcome) IN
      /\ c.op = "GET" /\ c.phase = "fetch"
      /\ IF h.settled = "pending"
         THEN inflight' = (inflight (-) One(c)) (+)
                          One([c EXCEPT !.phase = "json",
                                        !.resp = ArrayBody(remote)])
         ELSE inflight' = inflight (-) One(c)
      /\ last' = Step("GET fetch", 0, 0, outcome, h.settled, h.console)
      /\ UNCHANGED <<persons, meds, people, remote, attached, calls>>

DeleteFetched ==
    \E c \in BagToSet(inflight), outcome \in Outcomes :
      LET h == clearAllDataOnServerFetched(outcome, people) IN
      /\ c.op = "DELETE" /\ c.phase = "fetch"
      /\ remote' = IF outcome = "ok" THEN << >> ELSE remote
      /\ people' = h.people
      /\ inflight' = inflight (-) One(c)
      /\ SetHeap(persons, meds, people', inflight')
      /\ last' = Step("DELETE fetch", 0, 0, outcome, h.settled, h.console)
      /\ UNCHANGED <<attached, calls>>

(***************************************************************************)
(* The network: an awaited res.json() settles on the body it has read:     *)
(* what this store answers, or whatever else a server may send.            *)
(***************************************************************************)
PostParsed ==
    \E c \in BagToSet(inflight), body \in PostBodies :
      LET h == savePersonToServerParsed(body, persons[c.person].name) IN
      /\ c.op = "POST" /\ c.phase = "json"
      /\ inflight' = inflight (-) One(c)
      /\ SetHeap(persons, meds, people, inflight')
      /\ last' = [Step("POST json", c.person, 0, body.kind, h.settled, h.console)
                     EXCEPT !.data = body]
      /\ UNCHANGED <<people, remote, attached, calls>>

GetParsed ==
    \E c \in BagToSet(inflight) :
      /\ c.op = "GET" /\ c.phase = "json"
      /\ \E body \in {c.resp} \cup ForeignBodies :
           LET h == loadAllPeopleParsed(body, people, persons, meds) IN
           /\ inflight' = inflight (-) One(c)
           /\ people' = h.people
           /\ SetHeap(h.persons, h.meds, people', inflight')
           /\ last' = [Step("GET json", 0, 0,
                                 IF h.ok THEN "ok"
                                 ELSE IF body.kind = "unparseable"
                                      THEN "unparseable" ELSE "threw",
                                 h.settled, h.console)
                          EXCEPT !.data = body]
      /\ UNCHANGED <<remote, attached, calls>>

(***************************************************************************)
(* The state after construction: new UserManager(apiBaseUrl) and an empty  *)
(* store.  The caller has built two persons and two medications: Alex,     *)
(* four addMedication calls on, and Sam with none; the second medication's *)
(* refill date was given as text, a date or not.                           *)
(***************************************************************************)
RECURSIVE AddAll(_, _)
AddAll(person, ids) ==
    IF ids = << >> THEN person
    ELSE AddAll(addMedication(person, Head(ids)).person, Tail(ids))

Init ==
    /\ \E text \in {<<3, 0>>, NotADateString} :
         meds = <<Medication("Aspirin", 2, FALSE, ADate(DateOf(MsPerDay + 1))),
                  Medication("Metformin", 1, TRUE, AString(text))>>
    /\ persons = <<AddAll(Person("Alex"), <<1, 2, 2, 1>>), Person("Sam")>>
    /\ people = << >>
    /\ remote = << >>
    /\ inflight = EmptyBag
    /\ attached = 0
    /\ calls = 0
    /\ last = Step("new UserManager", 0, 0, "", "none", <<>>)

(***************************************************************************)
(* Spec: the caller calls the UserManager and the network answers.         *)
(***************************************************************************)
Next ==
    \/ AddPerson
    \/ LoadAllPeople
    \/ ClearAllDataOnServer
    \/ PostFetched
    \/ GetFetched
    \/ DeleteFetched
    \/ PostParsed
    \/ GetParsed

Spec == Init /\ [][Next]_vars

(***************************************************************************)
(* SpecAddOnly: a UserManager on which only addPerson is called.           *)
(***************************************************************************)
NextAddOnly ==
    \/ AddPerson
    \/ PostFetched
    \/ PostParsed

SpecAddOnly == Init /\ [][NextAddOnly]_vars

(***************************************************************************)
(* SpecEntities: the caller changes its persons and medications, and       *)
(* loadAllPeople rebuilds persons from what the server sends.              *)
(***************************************************************************)
Rehydrate == calls < MaxLoads /\ LoadAllPeople

NextEntities ==
    \/ AddMedication
    \/ MarkAsTaken
    \/ ResetTakenStatus
    \/ Rehydrate
    \/ GetFetched
    \/ GetParsed

SpecEntities == Init /\ [][NextEntities]_vars

(***************************************************************************)
(* SpecAllSucceed: every request is built, reaches the store, is answered  *)
(* with an ok status and with the body this store sends; calls may         *)
(* overlap.                                                                *)
(***************************************************************************)
AddPersonSent == AddPerson /\ last'.outcome = "sent"

PostAccepted == PostFetched /\ last'.outcome = "ok"

PostAnswered == PostParsed /\ last'.outcome = "object"

GetAccepted == GetFetched /\ last'.outcome = "ok"

GetAnswered == GetParsed /\ last'.outcome = "ok" /\ last'.data \notin ForeignBodies

DeleteAccepted == DeleteFetched /\ last'.outcome = "ok"

NextAllSucceed ==
    \/ AddPersonSent
    \/ LoadAllPeople
    \/ ClearAllDataOnServer
    \/ PostAccepted
    \/ PostAnswered
    \/ GetAccepted
    \/ GetAnswered
    \/ DeleteAccepted

SpecAllSucceed == Init /\ [][NextAllSucceed]_vars

(***************************************************************************)
(* SpecSequential: one client of a store that nobody else writes; each     *)
(* call is awaited before the next is made, and every request succeeds.    *)
(***************************************************************************)
Awaited == inflight = EmptyBag

AddPersonAwaited == Awaited /\ AddPerson

LoadAllPeopleAwaited == Awaited /\ LoadAllPeople

ClearAllDataOnServerAwaited == Awaited /\ ClearAllDataOnServer

NextSequential ==
    \/ AddPersonAwaited
    \/ LoadAllPeopleAwaited
    \/ ClearAllDataOnServerAwaited
    \/ PostAccepted
    \/ PostAnswered
    \/ GetAccepted
    \/ GetAnswered
    \/ DeleteAccepted

SpecSequential == Init /\ [][NextSequential]_vars

(***************************************************************************)
(* SpecFair: Spec on a network where every request that was issued ends,   *)
(* with a response or with a transport failure, and every body that is     *)
(* being read ends.                                                        *)
(***************************************************************************)
Fairness ==
    /\ WF_vars(PostFetched)
    /\ WF_vars(GetFetched)
    /\ WF_vars(DeleteFetched)
    /\ WF_vars(PostParsed)
    /\ WF_vars(GetParsed)

SpecFair == Init /\ [][Next]_vars /\ Fairness

(***************************************************************************)
(* The claims.                                                             *)
(***************************************************************************)
IsLoaded(step) == step.op = "GET json" /\ step.outcome = "ok"

IsFailedLoad(step) ==
    /\ step.op \in {"GET fetch", "GET json"}
    /\ step.outcome \in {"transport", "status", "unparseable", "threw"}

PostsInFlight == {c \in BagToSet(inflight) : c.op = "POST"}

\* C1: in every reachable state, whatever the calls and the responses, the
\* local people sequence holds at most 5 entries.
C1_PeopleWithinCap == Len(people) <= PeopleCap

\* one addMedication call of the caller, by the count it found
C2_AddMedicationStep ==
    last'.op = "addMedication" =>
      LET p == last'.person
          before == persons[p].medications
      IN  IF Len(before) < MedicationCap
          THEN /\ persons'[p].medications = Append(before, last'.med)
               /\ last'.console = << >>
          ELSE /\ persons'[p] = persons[p]
               /\ last'.console =
                    <<Warn("already has 5 medications", persons[p].name)>>

\* C2: no Person ever holds more than 5 medications; an addMedication call on
\* a person with fewer than 5 appends its medication at the end and prints
\* nothing, and a call on a person with 5 prints a warning and changes nothing.
C2_MedicationsWithinCap ==
    /\ [](\A p \in DOMAIN persons : Len(persons[p].medications) <= MedicationCap)
    /\ [][C2_AddMedicationStep]_vars

\* C2's case: a call on a person that holds 5 medications was turned down
C2_TurnedDownAtFive ==
    /\ last.op = "addMedication"
    /\ last.console # << >>
    /\ Len(persons[last.person].medications) = MedicationCap

\* one addPerson call, by the count it found
C3_AddPersonStep ==
    last'.op = "addPerson" =>
      IF Len(people) < PeopleCap
      THEN /\ people' = Append(people, last'.person)
           /\ BagCardinality(inflight') = BagCardinality(inflight) + 1
      ELSE /\ people' = people
           /\ inflight' = inflight
           /\ last'.console = <<Warn("Cannot add more than 5 people", "")>>

\* C3: with only addPerson called, n <= 5 calls leave n people; a call at 5
\* people changes nothing, warns and issues no POST; and every accepted call
\* issues one POST, so that POSTs issued and calls accepted stay equal.
C3_OnePostPerAcceptedCall ==
    /\ [](calls <= PeopleCap => Len(people) = calls)
    /\ [][C3_AddPersonStep]_vars

\* the step that issues a POST, and the steps that settle one
C4_Step ==
    /\ (last'.op = "addPerson" /\ inflight' # inflight) =>
          people' = Append(people, last'.person)
    /\ last'.op \in {"POST fetch", "POST json"} => people' = people

\* C4: an addPerson call that issues a POST has appended the person by then,
\* and no settling of the POST, failed or not, changes people.
C4_AppendSurvivesFailedPush == [][C4_Step]_vars

\* C4's case: the push has failed, the person is in people, the store is empty
C4_LocalOnly ==
    /\ last.op = "POST fetch"
    /\ last.outcome \in {"transport", "status"}
    /\ last.person \in Range(people)
    /\ remote = << >>

\* C5: no step leaves a UserManager method rejected; when the remote call
\* failed (fetch rejected, status not ok, body no JSON or not of the expected
\* shape) the method is fulfilled and an error has been printed.  (A DELETE
\* answered with a status that is not ok is no failure to the code.)
C5_NoFailurePropagates ==
    /\ last.settled # "rejected"
    /\ ( /\ last.outcome \in {"transport", "status", "unparseable", "null", "threw"}
         /\ ~(last.op = "DELETE fetch" /\ last.outcome = "status") )
       => /\ last.settled = "fulfilled"
          /\ last.console # << >>
          /\ last.console[Len(last.console)].level = "error"

\* C5's case: the response body was not of the expected shape
C5_MalformedBodySwallowed ==
    /\ last.op = "GET json"
    /\ last.outcome = "threw"
    /\ last.settled = "fulfilled"

\* a step in which a load fails
C6_Step ==
    IsFailedLoad(last') =>
      /\ people' = people
      /\ \A i \in DOMAIN people : persons'[people[i]] = persons[people[i]]

\* C6: a step in which loadAllPeople fails leaves people, and the persons in
\* it, as they were.
C6_FailedLoadKeepsPeople == [][C6_Step]_vars

\* C6's case: the load failed on the second record, with people not empty
C6_FailedOnLaterRecord ==
    /\ last.op = "GET json"
    /\ last.outcome = "threw"
    /\ Len(last.data.items) >= 2
    /\ people # << >>

\* the step in which a load succeeds
C7_Step ==
    IsLoaded(last') =>
      LET data == last'.data.items IN
      /\ Len(people') = Len(data)
      /\ \A i \in DOMAIN data : persons'[people'[i]].name = data[i].name
      /\ \A i \in DOMAIN people' : people'[i] \notin DOMAIN persons
      /\ \A i, j \in DOMAIN people' : i # j => people'[i] # people'[j]
      /\ \A q \in DOMAIN persons \cap DOMAIN persons' : persons'[q] = persons[q]
      /\ \A m \in DOMAIN meds \cap DOMAIN meds' : meds'[m] = meds[m]

\* C7: the step in which loadAllPeople succeeds sets people to one new Person
\* per record, in the records' order; none of them existed before, none is
\* there twice, and no object that existed before is changed.
C7_LoadReplacesPeople == [][C7_Step]_vars

\* C7's case: a load of some records has replaced a people sequence that held
\* a person whose POST is still in flight
C7_ReplacedNonEmpty ==
    /\ IsLoaded(last)
    /\ last.data.items # << >>
    /\ \E c \in PostsInFlight : c.person \notin Range(people)

\* what a Person keeps of k medications, and the warnings a load prints
Kept(k) == IF k > MedicationCap THEN MedicationCap ELSE k

RECURSIVE ExpectedWarnings(_)
ExpectedWarnings(data) ==
    IF data = << >> THEN << >>
    ELSE [j \in 1..(Len(Head(data).medications) - Kept(Len(Head(data).medications)))
            |-> Warn("already has 5 medications", Head(data).name)]
         \o ExpectedWarnings(Tail(data))

\* C8: after a successful load, the Person of a record with k medications
\* holds the first min(k, 5) of them, in order and field by field, and the
\* load has printed one warning per medication beyond the fifth.
C8_LoadKeepsFirstFive ==
    IsLoaded(last) =>
      LET data == last.data.items IN
      /\ \A i \in DOMAIN data :
           LET rec == data[i].medications
               p == persons[people[i]]
           IN  /\ Len(p.medications) = Kept(Len(rec))
               /\ \A j \in 1..Kept(Len(rec)) :
                    meds[p.medications[j]] =
                      [name |-> rec[j].name,
                       frequencyPerDay |-> rec[j].frequencyPerDay,
                       taken |-> rec[j].taken,
                       refillDate |-> NewDate(rec[j].refillDate)]
      /\ SelectSeq(last.console, LAMBDA e : e.level = "warn") = ExpectedWarnings(data)

\* C8's case: a record with 7 medications was loaded
C8_SevenLoaded ==
    /\ IsLoaded(last)
    /\ \E i \in DOMAIN last.data.items :
         Len(last.data.items[i].medications) = MedicationCap + 2

\* C9: once the DELETE has been answered, with whatever status, people is
\* empty and the method is fulfilled.
C9_ClearedOnAnyResponse ==
    (last.op = "DELETE fetch" /\ last.outcome \in {"ok", "status"}) =>
      /\ people = << >>
      /\ last.settled = "fulfilled"

\* C9's case: the answer's status was not ok, and people held a person whose
\* POST is still in flight
C9_ClearedOnBadStatus ==
    /\ last.op = "DELETE fetch"
    /\ last.outcome = "status"
    /\ PostsInFlight # {}

\* the step in which a DELETE fails in transport
C10_Step ==
    (last'.op = "DELETE fetch" /\ last'.outcome = "transport") =>
      /\ people' = people
      /\ last'.console = <<Error("Failed to clear data", "")>>
      /\ last'.settled = "fulfilled"

\* C10: the step in which the DELETE fails in transport leaves people as it
\* was, prints the error and fulfils the method.
C10_TransportFailureKeepsPeople == [][C10_Step]_vars

\* C10's case: the DELETE failed in transport with people not empty
C10_KeptOnTransportFailure ==
    /\ last.op = "DELETE fetch"
    /\ last.outcome = "transport"
    /\ people # << >>

\* a call that passed the capacity check, and the processing of a response
C11_Step ==
    /\ (last'.op = "addPerson" /\ last'.outcome # "full") =>
          /\ Len(people') = Len(people) + 1
          /\ people'[Len(people')] = last'.person
          /\ \A i \in DOMAIN people : people'[i] = people[i]
    /\ last'.op \in {"POST fetch", "POST json"} =>
          \A i \in DOMAIN people' : i \in DOMAIN people /\ people'[i] = people[i]

\* C11: with addPerson called again before the first call's POST has settled,
\* each call that passes the capacity check puts its person behind every
\* person put there before, the processing of a response moves no person, and
\* the person of every POST still in flight is in people already.
C11_AppendsInCallOrder ==
    /\ [](\A c \in PostsInFlight : c.person \in Range(people))
    /\ [][C11_Step]_vars

\* C11's case: a was added before b, both POSTs were in flight together, and
\* b's POST has completed while a's has not been answered yet
C11_CompletedOutOfCallOrder ==
    /\ Len(people) = 2
    /\ people[1] # people[2]
    /\ last.op = "POST json"
    /\ last.outcome = "object"
    /\ last.person = people[2]
    /\ \E c \in PostsInFlight : c.person = people[1] /\ c.phase = "fetch"

\* the Person that loadAllPeople builds from the payload of savePersonToServer
\* answered as the one record of a response, with the Medications it builds
RoundTrip(person, heap) ==
    LET s == savePersonToServer(person, heap)
        r == Reconstruct(ArrayBody(<<s.body>>), << >>, << >>)
    IN  [built |-> s.sent /\ ~r.threw,
         person |-> IF r.people = << >> THEN Person("") ELSE r.persons[r.people[1]],
         meds |-> r.meds]

SameAfterRoundTrip(person, heap) ==
    LET t == RoundTrip(person, heap) IN
    /\ t.built
    /\ t.person.name = person.name
    /\ Len(t.person.medications) = Len(person.medications)
    /\ \A j \in DOMAIN person.medications :
         LET was == heap[person.medications[j]]
             is == t.meds[t.person.medications[j]]
         IN  /\ is.name = was.name
             /\ is.frequencyPerDay = was.frequencyPerDay
             /\ is.taken = was.taken
             /\ is.refillDate = was.refillDate

\* C12: every Person in people (each holds at most 5 medications) comes back
\* from the round trip through the POST payload and a load of it with the
\* same name and the same medications in the same order, field by field.
C12_RoundTrip ==
    \A i \in DOMAIN people : SameAfterRoundTrip(persons[people[i]], meds)

\* what a call of markAsTaken or resetTakenStatus leaves of the medication
C13_Left(was, is, taken) ==
    /\ is.taken = taken
    /\ is.name = was.name
    /\ is.frequencyPerDay = was.frequencyPerDay
    /\ is.refillDate = was.refillDate

C13_Step ==
    /\ last'.op = "markAsTaken" =>
          /\ C13_Left(meds[last'.med], meds'[last'.med], TRUE)
          /\ markAsTaken(meds'[last'.med]) = meds'[last'.med]
    /\ last'.op = "resetTakenStatus" =>
          /\ C13_Left(meds[last'.med], meds'[last'.med], FALSE)
          /\ resetTakenStatus(meds'[last'.med]) = meds'[last'.med]
    /\ last'.op \in {"markAsTaken", "resetTakenStatus"} =>
          /\ DOMAIN meds' = DOMAIN meds
          /\ \A k \in DOMAIN meds \ {last'.med} : meds'[k] = meds[k]
          /\ persons' = persons

\* C13: markAsTaken leaves taken true and resetTakenStatus leaves it false,
\* whatever it was; a second call in a row changes nothing more; name,
\* frequencyPerDay and refillDate, every other Medication and every Person
\* are left as they were.
C13_TakenFlagOnly ==
    /\ [](last.op = "markAsTaken" => meds[last.med].taken)
    /\ [](last.op = "resetTakenStatus" => ~meds[last.med].taken)
    /\ [][C13_Step]_vars

\* C13's case: the medication built as taken has been reset, after the one
\* built as not taken had been marked
C13_BothFlipped ==
    /\ last.op = "resetTakenStatus"
    /\ meds[last.med].name = "Metformin"
    /\ ~meds[last.med].taken
    /\ \E m \in DOMAIN meds : meds[m].name = "Aspirin" /\ meds[m].taken

\* C14: no Medication object is in the medications of two different Person
\* objects.
C14_NoSharedMedication ==
    \A p, q \in DOMAIN persons :
        p # q => Range(persons[p].medications) \cap Range(persons[q].medications) = {}

\* the records that a store holding just the persons of people would hold
PeopleJson == [i \in DOMAIN people |-> PersonJson(persons[people[i]], meds)]

\* the response of a load or of a clear is processed; a POST is settled
C15_Step ==
    /\ (IsLoaded(last') \/ (last'.op = "DELETE fetch" /\ last'.outcome # "transport")) =>
          /\ \A i \in DOMAIN people : people[i] \notin Range(people')
          /\ \A c \in PostsInFlight : c.person \notin Range(people')
    /\ last'.op \in {"POST fetch", "POST json"} => people' = people

\* C15: with every request succeeding, the response of a loadAllPeople or
\* clearAllDataOnServer that was in flight takes out of people every person
\* that was in it, those added meanwhile and whose POST is still in flight
\* included, and the success of such a POST later does not put its person
\* back.
C15_ResponseDropsAddedPerson == [][C15_Step]_vars

\* C15's case: every call has completed, the last of them the POST of a
\* person that the store holds and people does not; people and the store
\* differ
C15_Diverged ==
    /\ inflight = EmptyBag
    /\ last.op = "POST json"
    /\ last.console = <<Log("Saved", persons[last.person].name)>>
    /\ last.person \notin Range(people)
    /\ \E i \in DOMAIN remote : remote[i] = PersonJson(persons[last.person], meds)
    /\ PeopleJson # remote

\* the requests that were issued and have not ended yet
Requests(pending) ==
    LET waiting == {c \in BagToSet(pending) : c.phase = "fetch"}
    IN  BagCardinality([c \in waiting |-> pending[c]])

\* a call that invokes savePersonToServer, loadAllPeople or
\* clearAllDataOnServer; the end of a request; the end of a body's reading
C16_Step ==
    /\ ( \/ last'.op = "addPerson" /\ last'.outcome # "full"
         \/ last'.op \in {"loadAllPeople", "clearAllDataOnServer"} ) =>
          Requests(inflight') = Requests(inflight) + 1
    /\ last'.op \in {"POST fetch", "GET fetch", "DELETE fetch"} =>
          Requests(inflight') = Requests(inflight) - 1
    /\ last'.op \in {"POST json", "GET json"} =>
          Requests(inflight') = Requests(inflight)

\* on a network where every request ends, the calls in progress all complete
C16_Completes == (inflight # EmptyBag) ~> (inflight = EmptyBag)

\* C16: a call that invokes savePersonToServer, loadAllPeople or
\* clearAllDataOnServer issues one request; the end of a request or of a
\* body's reading, failed or not, issues none again; and on a network where
\* every request ends, every call in progress completes.
C16_OneRequestNoRetry ==
    /\ [][C16_Step]_vars
    /\ C16_Completes

\* a record of the store and a Person say the same: the name, and the
\* medications in order, each by name, frequencyPerDay, taken and date
SamePerson(rec, person, heap) ==
    /\ rec.name = person.name
    /\ Len(rec.medications) = Len(person.medications)
    /\ \A j \in DOMAIN rec.medications :
         LET m == heap[person.medications[j]] IN
         /\ rec.medications[j].name = m.name
         /\ rec.medications[j].frequencyPerDay = m.frequencyPerDay
         /\ rec.medications[j].taken = m.taken
         /\ NewDate(rec.medications[j].refillDate) = m.refillDate

\* C17: with each call awaited before the next and every request
\* succeeding, whenever no call is in progress people and the store hold
\* the same persons in the same order.
C17_LocalMatchesRemote ==
    Awaited =>
      /\ Len(people) = Len(remote)
      /\ \A i \in DOMAIN people : SamePerson(remote[i], persons[people[i]], meds)

====
